---------------------------- MODULE Spec2Model ----------------------------
(***************************************************************************)
(* A model of scripts/convert_all_to_sql.py: the toon parsers, the         *)
(* artifact builders and the pipeline driver.                              *)
(*                                                                         *)
(* Text is modelled as a sequence of one-character strings; a document is  *)
(* a sequence of lines, each without its line terminator.  An optional     *)
(* value (Python's None or a value) is <<>> or <<v>>.                      *)
(***************************************************************************)
EXTENDS Integers, Sequences, FiniteSets, TLC

(***************************************************************************)
(* Bounds of the model.                                                    *)
(***************************************************************************)
MaxText == 3
MaxLines == 3
MaxEditions == 3
MaxWindow == 2
MaxOld == 2
MaxBlocks == 3
MaxVolumes == 2
MaxRuns == 2
MaxLine == 6

(***************************************************************************)
(* Python string primitives.                                               *)
(***************************************************************************)
None == <<>>
Some(v) == <<v>>

Whitespace == {" ", "\t"}
Digits == {"0", "1", "2", "3", "4", "5", "6", "7", "8", "9"}
QUOTE == "\""

Drop(s, n) == SubSeq(s, n + 1, Len(s))

StartsWith(s, p) == Len(s) >= Len(p) /\ SubSeq(s, 1, Len(p)) = p

EndsWith(s, p) == Len(s) >= Len(p) /\ SubSeq(s, Len(s) - Len(p) + 1, Len(s)) = p

RECURSIVE LStrip(_)
LStrip(s) == IF s # <<>> /\ Head(s) \in Whitespace THEN LStrip(Tail(s)) ELSE s

RECURSIVE RStrip(_)
RStrip(s) ==
    IF s # <<>> /\ s[Len(s)] \in Whitespace
    THEN RStrip(SubSeq(s, 1, Len(s) - 1))
    ELSE s

Strip(s) == LStrip(RStrip(s))

\* The length of the longest run of characters of set cs that starts s.
RECURSIVE Run(_, _)
Run(s, cs) == IF s # <<>> /\ Head(s) \in cs THEN 1 + Run(Tail(s), cs) ELSE 0

\* The index of the first c in s, 0 when there is none.
RECURSIVE Find(_, _)
Find(s, c) ==
    IF s = <<>> THEN 0
    ELSE IF Head(s) = c THEN 1
    ELSE LET r == Find(Tail(s), c) IN IF r = 0 THEN 0 ELSE r + 1

\* str.split(c): the pieces between every occurrence of c.
RECURSIVE Split(_, _)
Split(s, c) ==
    LET i == Find(s, c)
    IN  IF i = 0 THEN <<s>>
        ELSE <<SubSeq(s, 1, i - 1)>> \o Split(Drop(s, i), c)

\* str.split(c, 1)[1] on a string that holds c: what follows the first c.
AfterFirst(s, c) == Drop(s, Find(s, c))

UpperCase == <<"T", "R", "U", "E", "F", "A", "L", "S">>
LowerCase == <<"t", "r", "u", "e", "f", "a", "l", "s">>

LowerChar(c) ==
    IF \E i \in 1..Len(UpperCase) : UpperCase[i] = c
    THEN LowerCase[CHOOSE i \in 1..Len(UpperCase) : UpperCase[i] = c]
    ELSE c

Lower(s) == [i \in 1..Len(s) |-> LowerChar(s[i])]

DigitVal(c) ==
    CASE c = "0" -> 0 [] c = "1" -> 1 [] c = "2" -> 2 [] c = "3" -> 3
      [] c = "4" -> 4 [] c = "5" -> 5 [] c = "6" -> 6 [] c = "7" -> 7
      [] c = "8" -> 8 [] c = "9" -> 9

\* The value of a non-empty run of decimal digits.
RECURSIVE DecimalValue(_)
DecimalValue(ds) ==
    IF ds = <<>> THEN 0
    ELSE 10 * DecimalValue(SubSeq(ds, 1, Len(ds) - 1)) + DigitVal(ds[Len(ds)])

\* int(s): surrounding whitespace and one sign are accepted, anything else
\* raises ValueError.  The result is None when int() raises.
int(s) ==
    LET t == Strip(s)
        signed == t # <<>> /\ Head(t) \in {"+", "-"}
        ds == IF signed THEN Tail(t) ELSE t
    IN  IF ds # <<>> /\ Run(ds, Digits) = Len(ds)
        THEN Some(IF signed /\ Head(t) = "-" THEN 0 - DecimalValue(ds)
                  ELSE DecimalValue(ds))
        ELSE None

(***************************************************************************)
(* Flat-tuple lines: re.match(r'\s*(\d+),(\d+),(.+)$', line).  Each group  *)
(* is greedy and is followed by a character it cannot match, so the match  *)
(* is unique: a digit run, a comma, a digit run, a comma, a non-empty rest.*)
(***************************************************************************)
\* A reader that splits the whole line at every comma.
FlatMatchSplitEveryComma(line) ==
    LET parts == Split(line, ",")
        ok == /\ Len(parts) >= 3
              /\ parts[1] # <<>> /\ Run(parts[1], Digits) = Len(parts[1])
              /\ parts[2] # <<>> /\ Run(parts[2], Digits) = Len(parts[2])
              /\ parts[3] # <<>>
    IN  [ok |-> ok,
         g1 |-> IF ok THEN parts[1] ELSE <<>>,
         g2 |-> IF ok THEN parts[2] ELSE <<>>,
         g3 |-> IF ok THEN parts[3] ELSE <<>>]

FlatMatch(line) ==
    LET s0 == Drop(line, Run(line, Whitespace))
        n1 == Run(s0, Digits)
        s1 == Drop(s0, n1)
        n2 == IF s1 # <<>> THEN Run(Tail(s1), Digits) ELSE 0
        s2 == Drop(s1, n2 + 1)
        ok == /\ n1 >= 1 /\ s1 # <<>> /\ Head(s1) = ","
              /\ n2 >= 1 /\ s2 # <<>> /\ Head(s2) = ","
              /\ Len(s2) >= 2
    IN  [ok |-> ok,
         g1 |-> IF ok THEN SubSeq(s0, 1, n1) ELSE <<>>,
         g2 |-> IF ok THEN SubSeq(s1, 2, n2 + 1) ELSE <<>>,
         g3 |-> IF ok THEN Tail(s2) ELSE <<>>]

\* text[1:-1] and text[2:-1]
Slice(text, from) == SubSeq(text, from + 1, Len(text) - 1)

QuranText(g3) ==
    LET text == Strip(g3)
    IN  IF StartsWith(text, <<QUOTE>>) /\ EndsWith(text, <<QUOTE>>)
        THEN Slice(text, 1)
        ELSE IF StartsWith(text, <<QUOTE, " ">>) /\ EndsWith(text, <<QUOTE>>)
        THEN Slice(text, 2)
        ELSE text

EditionText(g3) ==
    LET text == Strip(g3)
    IN  IF StartsWith(text, <<QUOTE>>) /\ EndsWith(text, <<QUOTE>>)
        THEN Slice(text, 1)
        ELSE text

QuranHeader == <<"q", "u", "r", "a", "n", "[">>

\* The records one line adds to ayahs: none or one.
QuranLine(raw) ==
    LET line == Strip(raw)
        m == FlatMatch(line)
    IN  IF line = <<>> \/ StartsWith(line, QuranHeader) THEN <<>>
        ELSE IF m.ok
        THEN <<[surah |-> DecimalValue(m.g1), ayah |-> DecimalValue(m.g2),
                text |-> QuranText(m.g3)]>>
        ELSE <<>>

EditionLine(raw) ==
    LET line == Strip(raw)
        m == FlatMatch(line)
    IN  IF line = <<>> \/ StartsWith(line, QuranHeader) THEN <<>>
        ELSE IF m.ok
        THEN <<[surah |-> DecimalValue(m.g1), ayah |-> DecimalValue(m.g2),
                text |-> EditionText(m.g3)]>>
        ELSE <<>>

RECURSIVE parse_quran_toon(_)
parse_quran_toon(lines) ==
    IF lines = <<>> THEN <<>>
    ELSE QuranLine(Head(lines)) \o parse_quran_toon(Tail(lines))

RECURSIVE parse_edition_toon_file(_)
parse_edition_toon_file(lines) ==
    IF lines = <<>> THEN <<>>
    ELSE EditionLine(Head(lines)) \o parse_edition_toon_file(Tail(lines))

(***************************************************************************)
(* parse_info_toon: nested blocks.  current_surah is a dict; here a record *)
(* of optional values, the empty dict being the record of all None.        *)
(***************************************************************************)
ChapterPrefix == <<"-", " ", "c", "h", "a", "p", "t", "e", "r", ":">>
NamePrefix == <<"n", "a", "m", "e", ":">>
EnglishNamePrefix == <<"e", "n", "g", "l", "i", "s", "h">> \o NamePrefix
ArabicNamePrefix == <<"a", "r", "a", "b", "i", "c">> \o NamePrefix
RevelationPrefix == <<"r", "e", "v", "e", "l", "a", "t", "i", "o", "n", ":">>
VersesPrefix == <<"v", "e", "r", "s", "e", "s", "[">>
TrueToken == <<"t", "r", "u", "e">>

EmptyDict ==
    [chapter |-> None, name |-> None, englishname |-> None,
     arabicname |-> None, revelation |-> None]

\* The truth value of a dict: whether it holds a key.
Truthy(d) == \E k \in DOMAIN d : d[k] # None

\* re.match(r'\s+\d+,', line)
VerseMatch(line) ==
    LET w == Run(line, Whitespace)
        s1 == Drop(line, w)
        d == Run(s1, Digits)
        s2 == Drop(s1, d)
    IN  w >= 1 /\ d >= 1 /\ s2 # <<>> /\ Head(s2) = ","

\* The dict of one verse line with at least 8 fields; None when one of the
\* int() calls raises ValueError.
VerseDict(parts) ==
    LET n == [i \in 1..7 |-> int(parts[i])]
    IN  IF \E i \in 1..7 : n[i] = None THEN None
        ELSE Some([verse |-> n[1][1], line |-> n[2][1], juz |-> n[3][1],
                   manzil |-> n[4][1], page |-> n[5][1], ruku |-> n[6][1],
                   maqra |-> n[7][1], sajda |-> Lower(parts[8]) = TrueToken])

WithVerses(d, verses) ==
    [chapter |-> d.chapter, name |-> d.name, englishname |-> d.englishname,
     arabicname |-> d.arabicname, revelation |-> d.revelation, verses |-> verses]

\* The pending record is appended when the dict is not empty.
Flush(st) ==
    IF Truthy(st.current)
    THEN Append(st.surahs, WithVerses(st.current, st.verses))
    ELSE st.surahs

\* The body of the loop over the lines, for one line.
InfoLine(st, raw) ==
    LET line == RStrip(raw)
        sl == Strip(line)
        value == Strip(AfterFirst(line, ":"))
    IN  IF st.raised THEN st
        ELSE IF StartsWith(sl, ChapterPrefix) THEN
            LET n == int(Split(line, ":")[2])
            IN  IF n = None
                THEN [st EXCEPT !.surahs = Flush(st), !.raised = TRUE]
                ELSE [st EXCEPT !.surahs = Flush(st),
                                !.current = [EmptyDict EXCEPT !.chapter = n],
                                !.verses = <<>>,
                                !.in_verses = FALSE]
        ELSE IF StartsWith(sl, NamePrefix) /\ Truthy(st.current) THEN
            [st EXCEPT !.current.name = Some(value)]
        ELSE IF StartsWith(sl, EnglishNamePrefix) THEN
            [st EXCEPT !.current.englishname = Some(value)]
        ELSE IF StartsWith(sl, ArabicNamePrefix) THEN
            [st EXCEPT !.current.arabicname = Some(value)]
        ELSE IF StartsWith(sl, RevelationPrefix) THEN
            [st EXCEPT !.current.revelation = Some(value)]
        ELSE IF StartsWith(sl, VersesPrefix) THEN
            [st EXCEPT !.in_verses = TRUE]
        ELSE IF st.in_verses /\ VerseMatch(line) THEN
            LET parts == Split(Strip(line), ",")
            IN  IF Len(parts) >= 8
                THEN LET v == VerseDict(parts)
                     IN  IF v = None THEN [st EXCEPT !.raised = TRUE]
                         ELSE [st EXCEPT !.verses = Append(@, v[1])]
                ELSE st
        ELSE st

RECURSIVE InfoLoop(_, _)
InfoLoop(st, lines) ==
    IF lines = <<>> THEN st
    ELSE InfoLoop(InfoLine(st, Head(lines)), Tail(lines))

\* What parse_info_toon returns, or that it raised ValueError.
parse_info_toon(lines) ==
    LET st == InfoLoop([surahs |-> <<>>, current |-> EmptyDict,
                        in_verses |-> FALSE, verses |-> <<>>,
                        raised |-> FALSE], lines)
    IN  IF st.raised THEN [raised |-> TRUE, surahs |-> <<>>]
        ELSE [raised |-> FALSE, surahs |-> Flush(st)]

(***************************************************************************)
(* parse_tajweed_toon.  current_ayah is None or the pair (surah, ayah).    *)
(***************************************************************************)
TajweedSurahPrefix == <<"-", " ", "c", ":">>
TajweedAyahPrefix == <<"v", ":">>
RulesPrefix == <<"r", "u", "l", "e", "s", "[">>

\* The characters of the model's alphabet that \w matches.
WordChars ==
    Digits \cup {"_", "a", "b", "c", "e", "f", "g", "h", "i", "l", "m", "n",
                 "o", "p", "q", "r", "s", "t", "u", "v", "x", "T", "R", "U",
                 "E", "F", "A", "L", "S"}

\* re.match(r'\s+\d+,\d+,\w+', line)
RuleMatch(line) ==
    LET w == Run(line, Whitespace)
        s1 == Drop(line, w)
        d1 == Run(s1, Digits)
        s2 == Drop(s1, d1)
        d2 == IF s2 # <<>> THEN Run(Tail(s2), Digits) ELSE 0
        s3 == Drop(s2, d2 + 1)
    IN  /\ w >= 1 /\ d1 >= 1 /\ s2 # <<>> /\ Head(s2) = ","
        /\ d2 >= 1 /\ s3 # <<>> /\ Head(s3) = ","
        /\ Run(Tail(s3), WordChars) >= 1

TajweedLine(st, raw) ==
    LET line == RStrip(raw)
        sl == Strip(line)
    IN  IF st.raised THEN st
        ELSE IF StartsWith(sl, TajweedSurahPrefix) THEN
            LET n == int(Split(line, ":")[2])
            IN  IF n = None THEN [st EXCEPT !.raised = TRUE]
                ELSE [st EXCEPT !.surah = n[1]]
        ELSE IF StartsWith(sl, TajweedAyahPrefix) THEN
            LET n == int(Split(line, ":")[2])
            IN  IF n = None THEN [st EXCEPT !.raised = TRUE]
                ELSE [st EXCEPT !.current_ayah = Some(<<st.surah, n[1]>>)]
        ELSE IF StartsWith(sl, RulesPrefix) THEN st
        ELSE IF st.current_ayah # None /\ RuleMatch(line) THEN
            LET parts == Split(Strip(line), ",")
                a == int(parts[1])
                b == int(parts[2])
            IN  IF Len(parts) >= 3
                THEN IF a = None \/ b = None THEN [st EXCEPT !.raised = TRUE]
                     ELSE [st EXCEPT !.rules = Append(@,
                              [surah |-> st.current_ayah[1][1],
                               ayah |-> st.current_ayah[1][2],
                               start |-> a[1], end |-> b[1],
                               rule |-> parts[3]])]
                ELSE st
        ELSE st

RECURSIVE TajweedLoop(_, _)
TajweedLoop(st, lines) ==
    IF lines = <<>> THEN st
    ELSE TajweedLoop(TajweedLine(st, Head(lines)), Tail(lines))

\* What parse_tajweed_toon returns, or that it raised ValueError.
parse_tajweed_toon(lines) ==
    LET st == TajweedLoop([rules |-> <<>>, current_ayah |-> None, surah |-> 0,
                           raised |-> FALSE], lines)
    IN  IF st.raised THEN [raised |-> TRUE, rules |-> <<>>]
        ELSE [raised |-> FALSE, rules |-> st.rules]

(***************************************************************************)
(* parse_tajweed_glyphs: the page files of a directory, sorted; a file     *)
(* whose stem is no integer is passed over.                                *)
(***************************************************************************)
GlyphsHeader == <<"g", "l", "y", "p", "h", "s", "[">>

\* The index of the last c in s, 0 when there is none.
RECURSIVE FindLast(_, _)
FindLast(s, c) ==
    IF s = <<>> THEN 0
    ELSE IF s[Len(s)] = c THEN Len(s)
    ELSE FindLast(SubSeq(s, 1, Len(s) - 1), c)

\* re.match(r'(\d+),(\d+),"(.+)"', line): the last group is greedy and runs
\* to the last quote of the line.
GlyphMatch(line) ==
    LET n1 == Run(line, Digits)
        s1 == Drop(line, n1)
        n2 == IF s1 # <<>> THEN Run(Tail(s1), Digits) ELSE 0
        s2 == Drop(s1, n2 + 1)
        s3 == Drop(s2, 2)
        last == FindLast(s3, QUOTE)
        ok == /\ n1 >= 1 /\ s1 # <<>> /\ Head(s1) = ","
              /\ n2 >= 1 /\ StartsWith(s2, <<",", QUOTE>>)
              /\ last >= 2
    IN  [ok |-> ok,
         g1 |-> IF ok THEN SubSeq(line, 1, n1) ELSE <<>>,
         g2 |-> IF ok THEN SubSeq(s1, 2, n2 + 1) ELSE <<>>,
         g3 |-> IF ok THEN SubSeq(s3, 1, last - 1) ELSE <<>>]

GlyphLine(page_num, raw) ==
    LET line == Strip(raw)
        m == GlyphMatch(line)
    IN  IF line = <<>> \/ StartsWith(line, GlyphsHeader) THEN <<>>
        ELSE IF m.ok
        THEN <<[page |-> page_num, surah |-> DecimalValue(m.g1),
                ayah |-> DecimalValue(m.g2), glyphs |-> m.g3]>>
        ELSE <<>>

RECURSIVE GlyphPage(_, _)
GlyphPage(page_num, lines) ==
    IF lines = <<>> THEN <<>>
    ELSE GlyphLine(page_num, Head(lines)) \o GlyphPage(page_num, Tail(lines))

\* files: the sorted sequence of [stem, lines] of the directory.
RECURSIVE parse_tajweed_glyphs(_)
parse_tajweed_glyphs(files) ==
    IF files = <<>> THEN <<>>
    ELSE LET page_num == int(Head(files).stem)
         IN  (IF page_num = None THEN <<>>
              ELSE GlyphPage(page_num[1], Head(files).lines))
             \o parse_tajweed_glyphs(Tail(files))

(***************************************************************************)
(* parse_mutashabihat_toon:                                                *)
(* re.match(r'"(\d+)","([^"]+)","([^"]+)"', line)                          *)
(***************************************************************************)
\* The length of the longest run of characters other than c that starts s.
RECURSIVE RunNot(_, _)
RunNot(s, c) == IF s # <<>> /\ Head(s) # c THEN 1 + RunNot(Tail(s), c) ELSE 0

MutashabihatMatch(line) ==
    LET n1 == IF line # <<>> THEN Run(Tail(line), Digits) ELSE 0
        s1 == Drop(line, n1 + 1)
        s2 == Drop(s1, 3)
        n2 == RunNot(s2, QUOTE)
        s3 == Drop(s2, n2)
        s4 == Drop(s3, 3)
        n3 == RunNot(s4, QUOTE)
        s5 == Drop(s4, n3)
        ok == /\ StartsWith(line, <<QUOTE>>) /\ n1 >= 1
              /\ StartsWith(s1, <<QUOTE, ",", QUOTE>>) /\ n2 >= 1
              /\ StartsWith(s3, <<QUOTE, ",", QUOTE>>) /\ n3 >= 1
              /\ StartsWith(s5, <<QUOTE>>)
    IN  [ok |-> ok,
         g1 |-> IF ok THEN SubSeq(line, 2, n1 + 1) ELSE <<>>,
         g2 |-> IF ok THEN SubSeq(s2, 1, n2) ELSE <<>>,
         g3 |-> IF ok THEN SubSeq(s4, 1, n3) ELSE <<>>]

MutashabihatLine(raw) ==
    LET line == Strip(raw)
        m == MutashabihatMatch(line)
    IN  IF line = <<>> \/ StartsWith(line, <<"[">>) THEN <<>>
        ELSE IF m.ok
        THEN <<[id |-> DecimalValue(m.g1), source |-> m.g2, refs |-> m.g3]>>
        ELSE <<>>

RECURSIVE parse_mutashabihat_toon(_)
parse_mutashabihat_toon(lines) ==
    IF lines = <<>> THEN <<>>
    ELSE MutashabihatLine(Head(lines)) \o parse_mutashabihat_toon(Tail(lines))

(***************************************************************************)
(* parse_recitations_toon: the line pattern is digits, a comma, one or     *)
(* more non-commas, a comma, zero or more non-commas, a comma, digits.     *)
(***************************************************************************)
MetaPrefix == <<"m", "e", "t", "a", ":">>
RecitersHeader == <<"r", "e", "c", "i", "t", "e", "r", "s", "[">>

RecitationMatch(line) ==
    LET n1 == Run(line, Digits)
        s1 == Drop(line, n1)
        n2 == IF s1 # <<>> THEN RunNot(Tail(s1), ",") ELSE 0
        s2 == Drop(s1, n2 + 1)
        n3 == IF s2 # <<>> THEN RunNot(Tail(s2), ",") ELSE 0
        s3 == Drop(s2, n3 + 1)
        n4 == IF s3 # <<>> THEN Run(Tail(s3), Digits) ELSE 0
        ok == /\ n1 >= 1 /\ s1 # <<>> /\ Head(s1) = ","
              /\ n2 >= 1 /\ s2 # <<>> /\ Head(s2) = ","
              /\ s3 # <<>> /\ Head(s3) = ","
              /\ n4 >= 1
    IN  [ok |-> ok,
         g1 |-> IF ok THEN SubSeq(line, 1, n1) ELSE <<>>,
         g2 |-> IF ok THEN SubSeq(s1, 2, n2 + 1) ELSE <<>>,
         g3 |-> IF ok THEN SubSeq(s2, 2, n3 + 1) ELSE <<>>,
         g4 |-> IF ok THEN SubSeq(s3, 2, n4 + 1) ELSE <<>>]

\* match.group(3) or None
OrNone(text) == IF text = <<>> THEN None ELSE Some(text)

RecitationLine(raw) ==
    LET line == Strip(raw)
        m == RecitationMatch(line)
    IN  IF \/ line = <<>> \/ StartsWith(line, MetaPrefix)
           \/ StartsWith(line, RecitersHeader)
        THEN <<>>
        ELSE IF m.ok
        THEN <<[id |-> DecimalValue(m.g1), name |-> m.g2,
                style |-> OrNone(m.g3), verses |-> DecimalValue(m.g4)]>>
        ELSE <<>>

RECURSIVE parse_recitations_toon(_)
parse_recitations_toon(lines) ==
    IF lines = <<>> THEN <<>>
    ELSE RecitationLine(Head(lines)) \o parse_recitations_toon(Tail(lines))

(***************************************************************************)
(* parse_editions_toon: fields split at the commas outside quotes, the     *)
(* quote state toggled at every double quote.                              *)
(***************************************************************************)
EditionsHeader == <<"e", "d", "i", "t", "i", "o", "n", "s", "[">>

RECURSIVE LStripChar(_, _)
LStripChar(s, c) == IF s # <<>> /\ Head(s) = c THEN LStripChar(Tail(s), c) ELSE s

RECURSIVE RStripChar(_, _)
RStripChar(s, c) ==
    IF s # <<>> /\ s[Len(s)] = c
    THEN RStripChar(SubSeq(s, 1, Len(s) - 1), c)
    ELSE s

\* current.strip().strip('"')
Field(current) == LStripChar(RStripChar(Strip(current), QUOTE), QUOTE)

\* A split at every comma, quoted or not.
RECURSIVE SplitFieldsEveryComma(_, _, _, _)
SplitFieldsEveryComma(line, parts, current, in_quotes) ==
    IF line = <<>> THEN Append(parts, Field(current))
    ELSE IF Head(line) = QUOTE
    THEN SplitFieldsEveryComma(Tail(line), parts, current, in_quotes)
    ELSE IF Head(line) = ","
    THEN SplitFieldsEveryComma(Tail(line), Append(parts, Field(current)), <<>>,
                               in_quotes)
    ELSE SplitFieldsEveryComma(Tail(line), parts, Append(current, Head(line)),
                               in_quotes)

\* The loop over the characters of a line.
RECURSIVE SplitFields(_, _, _, _)
SplitFields(line, parts, current, in_quotes) ==
    IF line = <<>> THEN Append(parts, Field(current))
    ELSE IF Head(line) = QUOTE
    THEN SplitFields(Tail(line), parts, current, ~in_quotes)
    ELSE IF Head(line) = "," /\ ~in_quotes
    THEN SplitFields(Tail(line), Append(parts, Field(current)), <<>>, in_quotes)
    ELSE SplitFields(Tail(line), parts, Append(current, Head(line)), in_quotes)

\* parts[i] if len(parts) > i else default (i counted from 0)
PartOr(parts, i, default) == IF Len(parts) > i THEN parts[i + 1] ELSE default

EditionsLine(raw) ==
    LET line == Strip(raw)
        parts == SplitFields(line, <<>>, <<>>, FALSE)
    IN  IF \/ line = <<>> \/ StartsWith(line, MetaPrefix)
           \/ StartsWith(line, EditionsHeader)
        THEN <<>>
        ELSE IF Len(parts) >= 4
        THEN <<[id |-> parts[1],
                author |-> PartOr(parts, 1, <<>>),
                language |-> PartOr(parts, 2, <<>>),
                direction |-> PartOr(parts, 3, <<"l", "t", "r">>),
                source |-> PartOr(parts, 4, <<>>),
                note |-> PartOr(parts, 5, <<>>)]>>
        ELSE <<>>

RECURSIVE parse_editions_toon(_)
parse_editions_toon(lines) ==
    IF lines = <<>> THEN <<>>
    ELSE EditionsLine(Head(lines)) \o parse_editions_toon(Tail(lines))

(***************************************************************************)
(* The relational artifacts.  An artifact is named by a pair; its rows are *)
(* records that carry the name of their table.                             *)
(***************************************************************************)
SimpleDomains ==
    {"quran", "info", "tajweed", "glyphs", "mutashabihat", "recitations"}

Art(d) == <<d, 0>>
IndexArt == <<"index", 0>>
TafsirsArt == <<"tafsirs", 0>>
ChunkArt(k) == <<"chunk", k>>

MaxChunkFiles == IF MaxOld > MaxEditions THEN MaxOld ELSE MaxEditions

Artifacts ==
    {Art(d) : d \in SimpleDomains} \cup {IndexArt, TafsirsArt}
        \cup {ChunkArt(k) : k \in 1..MaxChunkFiles}

Absent == [exists |-> FALSE, final |-> FALSE, rows |-> {}]
Fresh == [exists |-> TRUE, final |-> FALSE, rows |-> {}]
Closed == [open |-> FALSE, in_txn |-> FALSE, pending |-> {}]
Opened == [open |-> TRUE, in_txn |-> FALSE, pending |-> {}]

\* The PRIMARY KEY and UNIQUE constraints of the schemas: whether row r
\* cannot be stored beside row e.
Clash(r, e) ==
    /\ r.tbl = e.tbl
    /\ CASE r.tbl = "ayahs" -> r.surah = e.surah /\ r.ayah = e.ayah
         [] r.tbl = "surahs" -> r.id = e.id
         [] r.tbl = "verse_info" -> r.surah = e.surah /\ r.ayah = e.ayah
         [] r.tbl = "editions" -> r.id = e.id \/ r.slug = e.slug
         [] r.tbl = "translations" ->
                r.edition_id = e.edition_id /\ r.surah = e.surah /\ r.ayah = e.ayah
         [] r.tbl = "rules" -> r.id = e.id
         [] r.tbl = "glyphs" ->
                r.page = e.page /\ r.surah = e.surah /\ r.ayah = e.ayah
         [] r.tbl = "similarities" -> r.id = e.id
         [] r.tbl = "reciters" -> r.id = e.id
         [] r.tbl = "tafsirs" -> r.id = e.id \/ r.slug = e.slug

\* The rowid SQLite gives a row stored with a NULL INTEGER PRIMARY KEY.
NextRowId(rows, tbl) ==
    LET ids == {r.id : r \in {x \in rows : x.tbl = tbl}}
    IN  IF ids = {} THEN 1 ELSE (CHOOSE m \in ids : \A k \in ids : k <= m) + 1

\* The row a statement stores: an id of None is assigned by SQLite.
Stored(rows, stmt) ==
    IF stmt.tbl \in {"surahs", "rules", "tafsirs"} /\ stmt.id = None
    THEN [stmt EXCEPT !.id = NextRowId(rows, stmt.tbl)]
    ELSE IF stmt.tbl = "surahs" THEN [stmt EXCEPT !.id = stmt.id[1]]
    ELSE stmt

\* A statement that cannot be executed: building its parameters raises.
KeyError == [tbl |-> "KeyError"]

\* The INSERT statements of one load, in order, on a table holding rows:
\* the rows after them, and whether one of them raised (IntegrityError or
\* KeyError), which ends the load there.
RECURSIVE Execute(_, _)
Execute(rows, stmts) ==
    IF stmts = <<>> THEN [raised |-> FALSE, rows |-> rows]
    ELSE IF Head(stmts) = KeyError THEN [raised |-> TRUE, rows |-> rows]
    ELSE LET r == Stored(rows, Head(stmts))
         IN  IF \E e \in rows : Clash(r, e)
             THEN [raised |-> TRUE, rows |-> rows]
             ELSE Execute(rows \cup {r}, Tail(stmts))

(***************************************************************************)
(* The statements of each builder's load.                                  *)
(***************************************************************************)
RECURSIVE Flatten(_)
Flatten(seqs) == IF seqs = <<>> THEN <<>> ELSE Head(seqs) \o Flatten(Tail(seqs))

QuranStatements(ayahs) ==
    [k \in 1..Len(ayahs) |->
        [tbl |-> "ayahs", surah |-> ayahs[k].surah, ayah |-> ayahs[k].ayah,
         text |-> ayahs[k].text]]

\* A builder that takes the number of the last verse for the count.
SurahStatementLastVerse(s) ==
    [tbl |-> "surahs", id |-> s.chapter, name |-> s.name,
     english_name |-> s.englishname, arabic_name |-> s.arabicname,
     revelation |-> s.revelation,
     verse_count |-> IF s.verses = <<>> THEN 0
                     ELSE s.verses[Len(s.verses)].verse]

\* s.get('chapter'), ..., len(s.get('verses', []))
SurahStatement(s) ==
    [tbl |-> "surahs", id |-> s.chapter, name |-> s.name,
     english_name |-> s.englishname, arabic_name |-> s.arabicname,
     revelation |-> s.revelation, verse_count |-> Len(s.verses)]

\* s['chapter'] raises KeyError on a record that has no chapter.
VerseStatement(s, v) ==
    IF s.chapter = None THEN KeyError
    ELSE [tbl |-> "verse_info", surah |-> s.chapter[1], ayah |-> v.verse,
          line |-> v.line, juz |-> v.juz, manzil |-> v.manzil, page |-> v.page,
          ruku |-> v.ruku, maqra |-> v.maqra, sajda |-> v.sajda]

InfoStatements(surahs) ==
    Flatten([k \in 1..Len(surahs) |->
        <<SurahStatement(surahs[k])>> \o
        [j \in 1..Len(surahs[k].verses) |->
            VerseStatement(surahs[k], surahs[k].verses[j])]])

TajweedStatements(rules) ==
    [k \in 1..Len(rules) |->
        [tbl |-> "rules", id |-> None, surah |-> rules[k].surah,
         ayah |-> rules[k].ayah, start_pos |-> rules[k].start,
         end_pos |-> rules[k].end, rule_type |-> rules[k].rule]]

GlyphStatements(glyphs) ==
    [k \in 1..Len(glyphs) |->
        [tbl |-> "glyphs", page |-> glyphs[k].page, surah |-> glyphs[k].surah,
         ayah |-> glyphs[k].ayah, glyph_text |-> glyphs[k].glyphs]]

MutashabihatStatements(entries) ==
    [k \in 1..Len(entries) |->
        [tbl |-> "similarities", id |-> entries[k].id,
         source_ref |-> entries[k].source, similar_refs |-> entries[k].refs]]

RecitationStatements(reciters) ==
    [k \in 1..Len(reciters) |->
        [tbl |-> "reciters", id |-> reciters[k].id, name |-> reciters[k].name,
         style |-> reciters[k].style, verse_count |-> reciters[k].verses]]

\* The parser call of a simple builder: whether it raised, and its result.
ParseDomain(d, source) ==
    CASE d = "quran" ->
            [raised |-> FALSE, data |-> parse_quran_toon(source.quran)]
      [] d = "info" ->
            LET r == parse_info_toon(source.info)
            IN  [raised |-> r.raised, data |-> r.surahs]
      [] d = "tajweed" ->
            LET r == parse_tajweed_toon(source.tajweed)
            IN  [raised |-> r.raised, data |-> r.rules]
      [] d = "glyphs" ->
            [raised |-> FALSE, data |-> parse_tajweed_glyphs(source.glyphs)]
      [] d = "mutashabihat" ->
            [raised |-> FALSE,
             data |-> parse_mutashabihat_toon(source.mutashabihat)]
      [] d = "recitations" ->
            [raised |-> FALSE,
             data |-> parse_recitations_toon(source.recitations)]

Statements(d, data) ==
    CASE d = "quran" -> QuranStatements(data)
      [] d = "info" -> InfoStatements(data)
      [] d = "tajweed" -> TajweedStatements(data)
      [] d = "glyphs" -> GlyphStatements(data)
      [] d = "mutashabihat" -> MutashabihatStatements(data)
      [] d = "recitations" -> RecitationStatements(data)

(***************************************************************************)
(* State.                                                                  *)
(***************************************************************************)
VARIABLES
    fn,         \* the parser applied to arg ("none" before the call)
    arg,        \* a document handed to a parser
    given,      \* the fields the document was composed from
    ret,        \* what the parser returned
    src,        \* the source tree: the documents of TOON_REPO
    vols,       \* the per-volume artifacts of TAFSIRS_DB_DIR, sorted by name
    per_chunk,  \* EDITIONS_PER_CHUNK
    fs,         \* the artifacts of the destination tree
    conn,       \* the connection to each artifact
    pc,         \* where main is: [fn, at]
    parsed,     \* the result of the builder's parser call
    chunk_id,   \* create_editions_chunked: the window being built
    i,          \* create_editions_chunked: the position in the window
    ayahs,      \* create_editions_chunked: the records of the edition's file
    run,        \* the number of the run of main
    snap,       \* the destination as the run before left it
    autocommitted,  \* the artifacts a row was written to outside BEGIN..COMMIT
    built       \* the artifacts init_db created in this run

hvars == <<fn, arg, given, ret>>
input == <<src, vols, per_chunk>>
locals == <<parsed, chunk_id, i, ayahs>>
runs == <<run, snap>>
history == <<autocommitted, built>>
pvars == <<input, fs, conn, pc, locals, runs, history>>
vars == <<hvars, pvars>>

At(f, step) == pc = [fn |-> f, at |-> step]
Goto(f, step) == pc' = [fn |-> f, at |-> step]

EmptySource ==
    [quran |-> <<>>, info |-> <<>>, editions |-> <<>>, edfiles |-> <<>>,
     tajweed |-> <<>>, glyphs |-> <<>>, mutashabihat |-> <<>>,
     recitations |-> <<>>]

NoHarness == fn = "none" /\ arg = <<>> /\ given = <<>> /\ ret = <<>>

NoPipeline ==
    /\ src = EmptySource /\ vols = <<>> /\ per_chunk = 1
    /\ fs = [a \in Artifacts |-> Absent]
    /\ conn = [a \in Artifacts |-> Closed]
    /\ pc = [fn |-> "none", at |-> "none"]
    /\ parsed = <<>> /\ chunk_id = 0 /\ i = 0 /\ ayahs = <<>>
    /\ run = 1 /\ snap = <<>> /\ autocommitted = {} /\ built = {}

(***************************************************************************)
(* The artifact builder's protocol: init_db, BEGIN, the inserts, COMMIT,   *)
(* finalize_db.  An uncaught exception ends the process: every connection  *)
(* is closed and what its open transaction wrote is rolled back.           *)
(***************************************************************************)
\* An init_db that leaves an existing file in place and creates the tables
\* only when they are missing.
init_db_keep(file) ==
    IF file.exists THEN [file EXCEPT !.final = FALSE] ELSE Fresh

\* init_db: the file at the path is deleted, then created with the schema.
init_db(file) == Fresh

InitDb(a) ==
    /\ fs' = [fs EXCEPT ![a] = init_db(fs[a])]
    /\ conn' = [conn EXCEPT ![a] = Opened]
    /\ built' = built \cup {a}

BeginTransaction(a) ==
    /\ conn' = [conn EXCEPT ![a].in_txn = TRUE]
    /\ UNCHANGED <<fs, built>>

\* What the connection reads: the file's rows and its transaction's.
Visible(a) == fs[a].rows \cup conn[a].pending

\* Rows written through the connection: into the open transaction, or
\* straight into the file when no BEGIN was executed (isolation_level is
\* None, so each statement then commits by itself).
Write(a, rows) ==
    IF conn[a].in_txn
    THEN /\ conn' = [conn EXCEPT ![a].pending = @ \cup rows]
         /\ UNCHANGED <<fs, autocommitted>>
    ELSE /\ fs' = [fs EXCEPT ![a].rows = @ \cup rows]
         /\ autocommitted' =
                IF rows = {} THEN autocommitted ELSE autocommitted \cup {a}
         /\ UNCHANGED conn

CommitTransaction(a) ==
    /\ fs' = [fs EXCEPT ![a].rows = @ \cup conn[a].pending]
    /\ conn' = [conn EXCEPT ![a] = Opened]
    /\ UNCHANGED built

\* finalize_db: VACUUM and close.
FinalizeDb(a) ==
    /\ fs' = [fs EXCEPT ![a].final = TRUE]
    /\ conn' = [conn EXCEPT ![a] = Closed]
    /\ UNCHANGED built

\* An uncaught exception.
Raise ==
    /\ conn' = [a \in Artifacts |-> Closed]
    /\ pc' = [fn |-> "main", at |-> "raised"]

(***************************************************************************)
(* main: the builders in order.                                            *)
(***************************************************************************)
Builders ==
    <<"create_quran_db", "create_info_db", "create_editions_chunked",
      "create_tajweed_db", "create_tajweed_glyphs_db",
      "create_mutashabihat_db", "create_recitations_db",
      "create_tafsirs_index">>

Builder(d) ==
    CASE d = "quran" -> "create_quran_db"
      [] d = "info" -> "create_info_db"
      [] d = "tajweed" -> "create_tajweed_db"
      [] d = "glyphs" -> "create_tajweed_glyphs_db"
      [] d = "mutashabihat" -> "create_mutashabihat_db"
      [] d = "recitations" -> "create_recitations_db"

\* The first step of a builder.
Entry(f) == IF f = "create_editions_chunked" THEN "parse" ELSE "init"

\* The builder returns: main calls the next one, or is done.
Return(f) ==
    LET k == CHOOSE n \in 1..Len(Builders) : Builders[n] = f
    IN  IF k = Len(Builders) THEN Goto("main", "done")
        ELSE Goto(Builders[k + 1], Entry(Builders[k + 1]))

(***************************************************************************)
(* The six builders of one artifact: create_quran_db, create_info_db,      *)
(* create_tajweed_db, create_tajweed_glyphs_db, create_mutashabihat_db and *)
(* create_recitations_db.                                                  *)
(***************************************************************************)
Init_(d) ==
    /\ At(Builder(d), "init")
    /\ InitDb(Art(d))
    /\ Goto(Builder(d), "parse")
    /\ UNCHANGED <<hvars, input, locals, runs, autocommitted>>

Parse(d) ==
    /\ At(Builder(d), "parse")
    /\ LET r == ParseDomain(d, src)
       IN  IF r.raised
           THEN Raise /\ UNCHANGED parsed
           ELSE parsed' = r.data /\ Goto(Builder(d), "begin") /\ UNCHANGED conn
    /\ UNCHANGED <<hvars, input, fs, chunk_id, i, ayahs, runs, history>>

Begin(d) ==
    /\ At(Builder(d), "begin")
    /\ BeginTransaction(Art(d))
    /\ Goto(Builder(d), "load")
    /\ UNCHANGED <<hvars, input, locals, runs, autocommitted>>

Load(d) ==
    /\ At(Builder(d), "load")
    /\ LET r == Execute(Visible(Art(d)), Statements(d, parsed))
       IN  IF r.raised
           THEN Raise /\ UNCHANGED <<fs, autocommitted>>
           ELSE Write(Art(d), r.rows \ Visible(Art(d))) /\ Goto(Builder(d), "commit")
    /\ UNCHANGED <<hvars, input, locals, runs, built>>

Commit(d) ==
    /\ At(Builder(d), "commit")
    /\ CommitTransaction(Art(d))
    /\ Goto(Builder(d), "finalize")
    /\ UNCHANGED <<hvars, input, locals, runs, autocommitted>>

Finalize(d) ==
    /\ At(Builder(d), "finalize")
    /\ FinalizeDb(Art(d))
    /\ Return(Builder(d))
    /\ UNCHANGED <<hvars, input, locals, runs, autocommitted>>

Build(d) ==
    Init_(d) \/ Parse(d) \/ Begin(d) \/ Load(d) \/ Commit(d) \/ Finalize(d)

(***************************************************************************)
(* create_editions_chunked: one index artifact, written without BEGIN, and *)
(* one shard artifact per window of per_chunk editions.                    *)
(***************************************************************************)
EDITIONS_PER_CHUNK == 45

Min(a, b) == IF a < b THEN a ELSE b

\* A partitioner that rounds the number of windows down.
num_chunks_floor(n, w) == n \div w

\* (len(editions) + EDITIONS_PER_CHUNK - 1) // EDITIONS_PER_CHUNK
num_chunks(n, w) == (n + w - 1) \div w

start_idx(c, w) == (c - 1) * w

\* A window that stops one edition short.
end_idx_short(c, n, w) == Min(c * w, n) - 1

\* min(chunk_id * EDITIONS_PER_CHUNK, len(editions))
end_idx(c, n, w) == Min(c * w, n)

\* editions[start_idx:end_idx]
chunk_editions(editions, c, w) ==
    SubSeq(editions, start_idx(c, w) + 1, end_idx(c, Len(editions), w))

\* start_idx + i + 1
edition_id(start, k) == start + k + 1

\* An index row that records the window size for the window number.
EditionStatementWindowSize(id, ed, c) ==
    [tbl |-> "editions", id |-> id, slug |-> ed.id, author |-> Some(ed.author),
     language |-> ed.language, direction |-> ed.direction,
     source |-> Some(ed.source), note |-> Some(ed.note), chunk_id |-> per_chunk]

\* The nullable columns author, source and note are bound to a str: a
\* value, the empty string included, never NULL.
EditionStatement(id, ed, c) ==
    [tbl |-> "editions", id |-> id, slug |-> ed.id, author |-> Some(ed.author),
     language |-> ed.language, direction |-> ed.direction,
     source |-> Some(ed.source), note |-> Some(ed.note), chunk_id |-> c]

TranslationStatements(id, records) ==
    [k \in 1..Len(records) |->
        [tbl |-> "translations", edition_id |-> id, surah |-> records[k].surah,
         ayah |-> records[k].ayah, text |-> records[k].text]]

EdFn == "create_editions_chunked"

Window == chunk_editions(parsed, chunk_id, per_chunk)

CurrentId == edition_id(start_idx(chunk_id, per_chunk), i)

EdParse ==
    /\ At(EdFn, "parse")
    /\ parsed' = parse_editions_toon(src.editions)
    /\ Goto(EdFn, "index_init")
    /\ UNCHANGED <<hvars, input, fs, conn, chunk_id, i, ayahs, runs, history>>

EdIndexInit ==
    /\ At(EdFn, "index_init")
    /\ InitDb(IndexArt)
    /\ IF num_chunks(Len(parsed), per_chunk) >= 1
       THEN chunk_id' = 1 /\ Goto(EdFn, "chunk_init")
       ELSE UNCHANGED chunk_id /\ Goto(EdFn, "index_finalize")
    /\ UNCHANGED <<hvars, input, parsed, i, ayahs, runs, autocommitted>>

EdChunkInit ==
    /\ At(EdFn, "chunk_init")
    /\ InitDb(ChunkArt(chunk_id))
    /\ i' = 0
    /\ IF Window # <<>>
       THEN Goto(EdFn, "index_insert")
       ELSE Goto(EdFn, "chunk_finalize")
    /\ UNCHANGED <<hvars, input, parsed, chunk_id, ayahs, runs, autocommitted>>

\* The end of the loop body: the next edition of the window, or the end of
\* the window.
NextEdition ==
    IF i + 1 < Len(Window)
    THEN i' = i + 1 /\ Goto(EdFn, "index_insert")
    ELSE i' = i /\ Goto(EdFn, "chunk_finalize")

\* The index row is inserted; then the edition's document is looked up and
\* parsed.  A missing document, or one without a record, ends the body.
EdIndexInsert ==
    /\ At(EdFn, "index_insert")
    /\ LET ed == Window[i + 1]
           r == Execute(Visible(IndexArt),
                        <<EditionStatement(CurrentId, ed, chunk_id)>>)
           records == IF ed.id \in DOMAIN src.edfiles
                      THEN parse_edition_toon_file(src.edfiles[ed.id])
                      ELSE <<>>
       IN  IF r.raised
           THEN Raise /\ UNCHANGED <<fs, autocommitted, i, ayahs>>
           ELSE /\ Write(IndexArt, r.rows \ Visible(IndexArt))
                /\ ayahs' = records
                /\ IF records # <<>>
                   THEN i' = i /\ Goto(EdFn, "chunk_begin")
                   ELSE NextEdition
    /\ UNCHANGED <<hvars, input, parsed, chunk_id, runs, built>>

EdChunkBegin ==
    /\ At(EdFn, "chunk_begin")
    /\ BeginTransaction(ChunkArt(chunk_id))
    /\ Goto(EdFn, "chunk_load")
    /\ UNCHANGED <<hvars, input, locals, runs, autocommitted>>

EdChunkLoad ==
    /\ At(EdFn, "chunk_load")
    /\ LET a == ChunkArt(chunk_id)
           r == Execute(Visible(a), TranslationStatements(CurrentId, ayahs))
       IN  IF r.raised
           THEN Raise /\ UNCHANGED <<fs, autocommitted>>
           ELSE Write(a, r.rows \ Visible(a)) /\ Goto(EdFn, "chunk_commit")
    /\ UNCHANGED <<hvars, input, locals, runs, built>>

EdChunkCommit ==
    /\ At(EdFn, "chunk_commit")
    /\ CommitTransaction(ChunkArt(chunk_id))
    /\ NextEdition
    /\ UNCHANGED <<hvars, input, parsed, chunk_id, ayahs, runs, autocommitted>>

EdChunkFinalize ==
    /\ At(EdFn, "chunk_finalize")
    /\ FinalizeDb(ChunkArt(chunk_id))
    /\ IF chunk_id < num_chunks(Len(parsed), per_chunk)
       THEN chunk_id' = chunk_id + 1 /\ Goto(EdFn, "chunk_init")
       ELSE chunk_id' = chunk_id /\ Goto(EdFn, "index_finalize")
    /\ UNCHANGED <<hvars, input, parsed, i, ayahs, runs, autocommitted>>

EdIndexFinalize ==
    /\ At(EdFn, "index_finalize")
    /\ FinalizeDb(IndexArt)
    /\ Return(EdFn)
    /\ UNCHANGED <<hvars, input, locals, runs, autocommitted>>

BuildEditions ==
    \/ EdParse \/ EdIndexInit \/ EdChunkInit \/ EdIndexInsert \/ EdChunkBegin
    \/ EdChunkLoad \/ EdChunkCommit \/ EdChunkFinalize \/ EdIndexFinalize

(***************************************************************************)
(* create_tafsirs_index: one index row per per-volume artifact found in    *)
(* TAFSIRS_DB_DIR.  A volume is [stem, size, ayahs, meta]: ayahs is the    *)
(* count of its ayahs table, None when the count cannot be read; meta is   *)
(* None when it has no metadata table, else the value (None for NULL) of   *)
(* each key the table holds.                                               *)
(***************************************************************************)
TfFn == "create_tafsirs_index"

IndexStem == <<"i", "n", "d", "e", "x">>
MasterStem == <<"m", "a", "s", "t", "e", "r">>

\* sorted(TAFSIRS_DB_DIR.glob("*.db")): the volumes and, in its place in the
\* order, the index.db that init_db has just created.
Listing(volumes) ==
    LET before == SelectSeq(volumes, LAMBDA f : f.stem # MasterStem)
        after == SelectSeq(volumes, LAMBDA f : f.stem = MasterStem)
    IN  before \o <<[stem |-> IndexStem, size |-> 0, ayahs |-> None,
                     meta |-> None]>> \o after

\* A scan that leaves out the index only.
tafsir_dbs_with_master(listing) ==
    SelectSeq(listing, LAMBDA f : f.stem # IndexStem)

\* [f for f in tafsir_dbs if f.name not in ('index.db', 'master.db')]
tafsir_dbs(listing) ==
    SelectSeq(listing, LAMBDA f : f.stem \notin {IndexStem, MasterStem})

\* A lookup that gives up on every key as soon as one key is missing.
LookupAllOrNothing(vol, key, default) ==
    IF vol.meta = None \/ DOMAIN vol.meta[1] # {"name", "author", "language", "source"}
    THEN default
    ELSE vol.meta[1][key]

\* SELECT value FROM metadata WHERE key = ...: the default when the table
\* is missing (the except branch) or holds no row for the key.
Lookup(vol, key, default) ==
    IF vol.meta = None THEN default
    ELSE IF key \notin DOMAIN vol.meta[1] THEN default
    ELSE vol.meta[1][key]

TafsirStatement(vol) ==
    [tbl |-> "tafsirs", id |-> None, slug |-> vol.stem,
     name |-> Lookup(vol, "name", Some(vol.stem)),
     author |-> Lookup(vol, "author", None),
     language |-> Lookup(vol, "language", None),
     source |-> Lookup(vol, "source", None),
     ayah_count |-> vol.ayahs[1], file_size_bytes |-> vol.size]

TfInit ==
    /\ At(TfFn, "init")
    /\ InitDb(TafsirsArt)
    /\ Goto(TfFn, "scan")
    /\ UNCHANGED <<hvars, input, locals, runs, autocommitted>>

TfScan ==
    /\ At(TfFn, "scan")
    /\ parsed' = tafsir_dbs(Listing(vols))
    /\ Goto(TfFn, "begin")
    /\ UNCHANGED <<hvars, input, fs, conn, chunk_id, i, ayahs, runs, history>>

TfBegin ==
    /\ At(TfFn, "begin")
    /\ BeginTransaction(TafsirsArt)
    /\ i' = 0
    /\ IF parsed # <<>> THEN Goto(TfFn, "volume") ELSE Goto(TfFn, "commit")
    /\ UNCHANGED <<hvars, input, parsed, chunk_id, ayahs, runs, autocommitted>>

\* The body of the loop.  A volume whose ayahs cannot be counted, or whose
\* INSERT fails, lands in the outer except: a warning, and no row.
TfVolume ==
    /\ At(TfFn, "volume")
    /\ LET vol == parsed[i + 1]
       IN  IF vol.ayahs = None
           THEN UNCHANGED <<fs, conn, autocommitted>>
           ELSE LET r == Execute(Visible(TafsirsArt), <<TafsirStatement(vol)>>)
                IN  IF r.raised
                    THEN UNCHANGED <<fs, conn, autocommitted>>
                    ELSE Write(TafsirsArt, r.rows \ Visible(TafsirsArt))
    /\ i' = i + 1
    /\ IF i + 1 < Len(parsed) THEN Goto(TfFn, "volume") ELSE Goto(TfFn, "commit")
    /\ UNCHANGED <<hvars, input, parsed, chunk_id, ayahs, runs, built>>

TfCommit ==
    /\ At(TfFn, "commit")
    /\ CommitTransaction(TafsirsArt)
    /\ Goto(TfFn, "finalize")
    /\ UNCHANGED <<hvars, input, locals, runs, autocommitted>>

TfFinalize ==
    /\ At(TfFn, "finalize")
    /\ FinalizeDb(TafsirsArt)
    /\ Return(TfFn)
    /\ UNCHANGED <<hvars, input, locals, runs, autocommitted>>

BuildTafsirs ==
    TfInit \/ TfScan \/ TfBegin \/ TfVolume \/ TfCommit \/ TfFinalize

(***************************************************************************)
(* main, run again: the script is started a second time on the same source *)
(* tree, over what the first run left in the destination.                  *)
(***************************************************************************)
MainEnded == At("main", "done") \/ At("main", "raised")

Rerun ==
    /\ MainEnded
    /\ run = 1
    /\ snap' = fs
    /\ run' = 2
    /\ Goto(Builders[1], Entry(Builders[1]))
    /\ parsed' = <<>> /\ chunk_id' = 0 /\ i' = 0 /\ ayahs' = <<>>
    /\ built' = {}
    /\ UNCHANGED <<hvars, input, fs, conn, autocommitted>>

(***************************************************************************)
(* The process is killed: every connection is gone and SQLite rolls back   *)
(* what an open transaction wrote.  pc keeps the builder that was running. *)
(***************************************************************************)
Killed == pc.at = "killed"

Kill ==
    /\ pc.fn # "main"
    /\ ~Killed
    /\ conn' = [a \in Artifacts |-> Closed]
    /\ pc' = [fn |-> pc.fn, at |-> "killed"]
    /\ UNCHANGED <<hvars, input, fs, locals, runs, history>>

(***************************************************************************)
(* main, run again after the source tree has changed.                      *)
(***************************************************************************)
RunAgain(source) ==
    /\ At("main", "done")
    /\ run < MaxRuns
    /\ src' = source
    /\ snap' = fs
    /\ run' = run + 1
    /\ Goto(Builders[1], Entry(Builders[1]))
    /\ parsed' = <<>> /\ chunk_id' = 0 /\ i' = 0 /\ ayahs' = <<>>
    /\ built' = {}
    /\ UNCHANGED <<hvars, vols, per_chunk, fs, conn, autocommitted>>

(***************************************************************************)
(* Flat-tuple documents: an optional header line and one line              *)
(* <s>,<a>,"<text>".                                                       *)
(***************************************************************************)
TextChars == {"a", ",", QUOTE, " "}

RECURSIVE Texts(_)
Texts(n) ==
    IF n = 0 THEN {<<>>}
    ELSE LET shorter == Texts(n - 1)
         IN  shorter \cup {Append(t, c) : t \in shorter, c \in TextChars}

Numerals == {<<"1">>, <<"0", "7">>, <<"1", "1", "4">>}

FlatLine(g) ==
    g.s \o <<",">> \o g.a \o <<",", QUOTE>> \o g.text \o <<QUOTE>>

FlatDoc(g) ==
    IF g.header
    THEN <<QuranHeader \o <<"1", "]", ":">>, <<>>, <<" ">> \o FlatLine(g)>>
    ELSE <<FlatLine(g)>>

InitFlat ==
    /\ fn = "none"
    /\ given \in [s : Numerals, a : Numerals, text : Texts(MaxText),
                  header : BOOLEAN]
    /\ arg = FlatDoc(given)
    /\ ret = <<>>
    /\ NoPipeline

CallParseQuran ==
    /\ fn = "none"
    /\ fn' = "parse_quran_toon"
    /\ ret' = parse_quran_toon(arg)
    /\ UNCHANGED <<arg, given, pvars>>

CallParseEdition ==
    /\ fn = "none"
    /\ fn' = "parse_edition_toon_file"
    /\ ret' = parse_edition_toon_file(arg)
    /\ UNCHANGED <<arg, given, pvars>>

NextFlat == CallParseQuran \/ CallParseEdition

SpecFlat == InitFlat /\ [][NextFlat]_vars

\* C4: a line <s>,<a>,"<text>" yields exactly one record (s, a, text), the
\* text being what stands between the wrapping quotes, commas and quotes
\* and blanks included, in parse_quran_toon and in parse_edition_toon_file.
C4_FlatTupleExact ==
    fn \in {"parse_quran_toon", "parse_edition_toon_file"} =>
        ret = <<[surah |-> DecimalValue(given.s),
                 ayah |-> DecimalValue(given.a),
                 text |-> given.text]>>

C4_Witness ==
    /\ fn = "parse_edition_toon_file"
    /\ given.text = <<",", QUOTE, ",">>
    /\ given.s = <<"1", "1", "4">>
    /\ Len(ret) = 1 /\ ret[1].surah = 114 /\ ret[1].text = <<",", QUOTE, ",">>

(***************************************************************************)
(* Nested-block documents: every sequence of at most MaxLines of the   *)
(* lines below.                                                            *)
(***************************************************************************)
VerseFields == <<",", "1", ",", "1", ",", "1", ",", "1", ",", "1", ",", "1", ",">>

Chapter1Line == ChapterPrefix \o <<" ", "1">>
Chapter2Line == <<" ", " ">> \o ChapterPrefix \o <<" ", "2">>
ChapterXLine == ChapterPrefix \o <<" ", "x">>
NameLine == <<" ", " ">> \o NamePrefix \o <<" ", "a">>
EnglishNameLine == <<" ", " ">> \o EnglishNamePrefix \o <<" ", "a">>
\* The header of the verse list declares 9 verses, whatever follows it.
VersesLine == <<" ", " ">> \o VersesPrefix \o <<"9", "]", ":">>
Verse1Line == <<" ", " ", "1">> \o VerseFields \o <<"f", "a", "l", "s", "e">>
Verse2Line == <<" ", " ", "2">> \o VerseFields \o <<"T", "r", "u", "e">>
VerseXLine ==
    <<" ", " ", "3", ",", "x">> \o Tail(Tail(VerseFields)) \o <<"t", "r", "u", "e">>
VerseShortLine == <<" ", " ", "4", ",", "1">>

InfoLines ==
    {Chapter1Line, Chapter2Line, ChapterXLine, NameLine, EnglishNameLine,
     VersesLine, Verse1Line, Verse2Line, VerseXLine, VerseShortLine}

RECURSIVE Docs(_, _)
Docs(lines, n) ==
    IF n = 0 THEN {<<>>}
    ELSE LET shorter == Docs(lines, n - 1)
         IN  shorter \cup {Append(d, l) : d \in shorter, l \in lines}

InitInfoParse ==
    /\ fn = "none"
    /\ arg \in Docs(InfoLines, MaxLines)
    /\ given = <<>>
    /\ ret = <<>>
    /\ NoPipeline

CallParseInfo ==
    /\ fn = "none"
    /\ fn' = "parse_info_toon"
    /\ ret' = parse_info_toon(arg)
    /\ UNCHANGED <<arg, given, pvars>>

NextInfoParse == CallParseInfo

SpecInfoParse == InitInfoParse /\ [][NextInfoParse]_vars

\* The block-start lines of a document.
BlockStarts(doc) ==
    {k \in 1..Len(doc) : StartsWith(Strip(doc[k]), ChapterPrefix)}

\* C5: parse_info_toon returns as many surah records as the document has
\* block-start ('- chapter:') lines.
C5_RecordPerBlockStart ==
    (fn = "parse_info_toon" /\ ~ret.raised) =>
        Len(ret.surahs) = Cardinality(BlockStarts(arg))

\* The flushes themselves: the record of every block start is returned, in
\* order, the last one included, whatever follows or precedes it.
C5_EveryBlockFlushed ==
    (fn = "parse_info_toon" /\ ~ret.raised) =>
        LET blocks == SelectSeq(ret.surahs, LAMBDA r : r.chapter # None)
        IN  /\ Len(blocks) = Cardinality(BlockStarts(arg))
            /\ Len(ret.surahs) - Len(blocks) \in {0, 1}
            /\ \A k \in 2..Len(ret.surahs) : ret.surahs[k].chapter # None

(***************************************************************************)
(* Every parser on every document of at most MaxLines of the lines below:  *)
(* lines of each format, well formed and not.                              *)
(***************************************************************************)
ParserLines ==
    {<<"1", ",", "1", ",", QUOTE, "a", QUOTE>>,
     <<"1", ",", "x", ",", QUOTE, "a", QUOTE>>,
     <<"1", ",", "a", ",", ",", "2">>,
     <<"a", ",", "b", ",", "c", ",", "d">>,
     <<QUOTE, "1", QUOTE, ",", QUOTE, "a", QUOTE, ",", QUOTE, "b", QUOTE>>,
     Chapter1Line, ChapterXLine, VersesLine, Verse1Line, VerseXLine,
     TajweedSurahPrefix \o <<" ", "1">>,
     TajweedSurahPrefix \o <<" ", "x">>,
     <<" ", " ">> \o TajweedAyahPrefix \o <<" ", "1">>,
     <<" ", " ">> \o TajweedAyahPrefix \o <<" ">>,
     <<" ", " ", "1", ",", "2", ",", "g">>,
     <<" ", " ", "1", ",", "x", ",", "g">>}

InitParsers ==
    /\ fn = "none"
    /\ arg \in Docs(ParserLines, MaxLines)
    /\ given = <<>>
    /\ ret = <<>>
    /\ NoPipeline

Call(name, result) ==
    /\ fn = "none"
    /\ fn' = name
    /\ ret' = result
    /\ UNCHANGED <<arg, given, pvars>>

CallQuran ==
    Call("parse_quran_toon",
         [raised |-> FALSE, records |-> parse_quran_toon(arg)])

CallInfo ==
    Call("parse_info_toon",
         LET r == parse_info_toon(arg)
         IN  [raised |-> r.raised, records |-> r.surahs])

CallEditions ==
    Call("parse_editions_toon",
         [raised |-> FALSE, records |-> parse_editions_toon(arg)])

CallEditionFile ==
    Call("parse_edition_toon_file",
         [raised |-> FALSE, records |-> parse_edition_toon_file(arg)])

CallTajweed ==
    Call("parse_tajweed_toon",
         LET r == parse_tajweed_toon(arg)
         IN  [raised |-> r.raised, records |-> r.rules])

CallGlyphs ==
    Call("parse_tajweed_glyphs",
         [raised |-> FALSE,
          records |-> parse_tajweed_glyphs(<<[stem |-> <<"1">>, lines |-> arg]>>)])

CallMutashabihat ==
    Call("parse_mutashabihat_toon",
         [raised |-> FALSE, records |-> parse_mutashabihat_toon(arg)])

CallRecitations ==
    Call("parse_recitations_toon",
         [raised |-> FALSE, records |-> parse_recitations_toon(arg)])

NextParsers ==
    \/ CallQuran \/ CallInfo \/ CallEditions \/ CallEditionFile
    \/ CallTajweed \/ CallGlyphs \/ CallMutashabihat \/ CallRecitations

SpecParsers == InitParsers /\ [][NextParsers]_vars

\* C9: no line makes a parser raise: a line of the wrong shape, or one
\* whose integer field does not coerce, is passed over.
C9_NoParserRaises == fn # "none" => ~ret.raised

\* The parsers that coerce only what their pattern matched as digits never
\* raise.
C9_PatternParsersNeverRaise ==
    (fn # "none" /\ fn \notin {"parse_info_toon", "parse_tajweed_toon"}) =>
        ~ret.raised

(***************************************************************************)
(* The destination tree before a run: empty, or left by an earlier run on  *)
(* other input, with chunk_1 .. chunk_n of that run.                       *)
(***************************************************************************)
OldText == <<"o", "l", "d">>

OldRows(a) ==
    CASE a[1] = "quran" ->
            {[tbl |-> "ayahs", surah |-> 1, ayah |-> 1, text |-> OldText]}
      [] a[1] = "info" ->
            {[tbl |-> "surahs", id |-> 1, name |-> Some(OldText),
              english_name |-> None, arabic_name |-> None,
              revelation |-> None, verse_count |-> 1],
             [tbl |-> "verse_info", surah |-> 1, ayah |-> 1, line |-> 1,
              juz |-> 1, manzil |-> 1, page |-> 1, ruku |-> 1, maqra |-> 1,
              sajda |-> FALSE]}
      [] a[1] = "index" ->
            {[tbl |-> "editions", id |-> 1, slug |-> OldText, author |-> <<>>,
              language |-> <<>>, direction |-> <<>>, source |-> <<>>,
              note |-> <<>>, chunk_id |-> 1]}
      [] a[1] = "chunk" ->
            {[tbl |-> "translations", edition_id |-> a[2], surah |-> 1,
              ayah |-> 1, text |-> OldText]}
      [] a[1] = "tajweed" ->
            {[tbl |-> "rules", id |-> 1, surah |-> 1, ayah |-> 1,
              start_pos |-> 1, end_pos |-> 2, rule_type |-> OldText]}
      [] a[1] = "glyphs" ->
            {[tbl |-> "glyphs", page |-> 1, surah |-> 1, ayah |-> 1,
              glyph_text |-> OldText]}
      [] a[1] = "mutashabihat" ->
            {[tbl |-> "similarities", id |-> 1, source_ref |-> OldText,
              similar_refs |-> OldText]}
      [] a[1] = "recitations" ->
            {[tbl |-> "reciters", id |-> 1, name |-> OldText, style |-> None,
              verse_count |-> 1]}
      [] a[1] = "tafsirs" ->
            {[tbl |-> "tafsirs", id |-> 1, slug |-> OldText, name |-> Some(OldText),
              author |-> None, language |-> None, source |-> None,
              ayah_count |-> 1, file_size_bytes |-> 1]}

DestEmpty == [a \in Artifacts |-> Absent]

DestOld(n) ==
    [a \in Artifacts |->
        IF a[1] = "chunk" /\ a[2] > n THEN Absent
        ELSE [exists |-> TRUE, final |-> TRUE, rows |-> OldRows(a)]]

Destinations == {DestEmpty, DestOld(MaxOld)}

\* The start of a run of builder f on the given input.
Start(f) ==
    /\ NoHarness
    /\ fs \in Destinations
    /\ conn = [a \in Artifacts |-> Closed]
    /\ pc = [fn |-> f, at |-> Entry(f)]
    /\ parsed = <<>> /\ chunk_id = 0 /\ i = 0 /\ ayahs = <<>>
    /\ run = 1 /\ snap = <<>> /\ autocommitted = {} /\ built = {}

(***************************************************************************)
(* create_editions_chunked on every edition list of at most MaxEditions    *)
(* slugs, repeated slugs included, every window size up to MaxWindow, and  *)
(* every state of each edition's document: missing, without a record, with *)
(* two records, with a repeated record.                                    *)
(***************************************************************************)
SlugLetters == <<"a", "b", "c", "d", "e", "f", "g", "h">>

\* The slug lists of length n in which each new slug is the next unused
\* letter: every pattern of repetition, up to the naming of the slugs.
RECURSIVE SlugLists(_)
SlugLists(n) ==
    IF n = 0 THEN {<<>>}
    ELSE {Append(l, k) : l \in SlugLists(n - 1), k \in 1..n} \cap
         {l \in [1..n -> 1..n] :
            \A p \in 1..n : l[p] <= 1 + Cardinality({l[q] : q \in 1..(p - 1)})}

Translation11 == <<"1", ",", "1", ",", QUOTE, "a", ",", "b", QUOTE>>
Translation12 == <<"1", ",", "2", ",", "c">>

EditionFiles ==
    {<<<<"x">>>>,
     <<QuranHeader \o <<"2", "]", ":">>, Translation11, Translation12>>,
     <<Translation11, Translation11>>}

\* The line of editions.toon for a slug: slug, author, language, direction.
EditionsEntry(k) == <<SlugLetters[k], ",", QUOTE, "x", ",", "y", QUOTE, ",", "e", ",", "l">>

EditionsDoc(l) ==
    <<EditionsHeader \o <<"1", "]", ":">>>> \o [p \in 1..Len(l) |-> EditionsEntry(l[p])]

SourceOf(l, files) ==
    [EmptySource EXCEPT !.editions = EditionsDoc(l), !.edfiles = files]

InitEditions ==
    /\ Start(EdFn)
    /\ \E n \in 0..MaxEditions : \E l \in SlugLists(n) :
         \E present \in SUBSET {<<SlugLetters[l[p]]>> : p \in 1..n} :
           \E files \in [present -> EditionFiles] : src = SourceOf(l, files)
    /\ vols = <<>>
    /\ per_chunk \in 1..MaxWindow

NextEditions == BuildEditions

SpecEditions == InitEditions /\ [][NextEditions]_vars

(***************************************************************************)
(* What create_editions_chunked leaves behind.                             *)
(***************************************************************************)
\* create_editions_chunked has returned to main.
EditionsReturned == pc = [fn |-> "create_tajweed_db", at |-> "init"]

\* The least c with c * w >= n.
Ceil(n, w) == CHOOSE c \in 0..n : c * w >= n /\ (c - 1) * w < n

\* The shards this run created.
BuiltShards == {c \in 1..MaxChunkFiles : ChunkArt(c) \in built}

IndexRows == {r \in Visible(IndexArt) : r.tbl = "editions"}

ShardRows(c) == {r \in Visible(ChunkArt(c)) : r.tbl = "translations"}

ShardIds(c) == {r.edition_id : r \in ShardRows(c)}

\* The records of the document of the k-th edition; none when it is missing.
RecordsOf(k) ==
    IF parsed[k].id \in DOMAIN src.edfiles
    THEN parse_edition_toon_file(src.edfiles[parsed[k].id])
    ELSE <<>>

\* C1 as stated: when create_editions_chunked has returned, every id of
\* 1..N is the edition_id of translations rows in exactly one shard it
\* built and the id of exactly one index row, and the edition_ids of the
\* shards are exactly 1..N.
C1_EveryIdInExactlyOneShard ==
    EditionsReturned =>
        /\ \A k \in 1..Len(parsed) :
              /\ Cardinality({c \in BuiltShards : k \in ShardIds(c)}) = 1
              /\ Cardinality({r \in IndexRows : r.id = k}) = 1
        /\ UNION {ShardIds(c) : c \in BuiltShards} = 1..Len(parsed)

\* C1, amended: at every point of a run, in the artifacts the run has
\* created, no id has two index rows, every index id and every edition_id
\* lies in 1..N, id k is an edition_id of shard ceil(k/W) only and only when
\* the k-th edition's document yields a record, and the edition_ids of the
\* shards increase strictly in shard order; when create_editions_chunked has
\* returned, every id of 1..N has exactly one index row and every id whose
\* document yields a record is an edition_id of its shard.
C1_IdsPartitioned ==
    /\ IndexArt \in built =>
          \A r \in IndexRows :
              /\ r.id \in 1..Len(parsed)
              /\ Cardinality({e \in IndexRows : e.id = r.id}) = 1
    /\ \A c \in BuiltShards : \A k \in ShardIds(c) :
          /\ k \in 1..Len(parsed)
          /\ c = Ceil(k, per_chunk)
          /\ RecordsOf(k) # <<>>
    /\ \A c \in BuiltShards : \A d \in BuiltShards :
          c < d => \A k \in ShardIds(c) : \A m \in ShardIds(d) : k < m
    /\ EditionsReturned =>
          \A k \in 1..Len(parsed) :
              /\ Cardinality({r \in IndexRows : r.id = k}) = 1
              /\ {c \in BuiltShards : k \in ShardIds(c)} =
                    IF RecordsOf(k) # <<>> THEN {Ceil(k, per_chunk)} ELSE {}

\* Two windows, an edition whose document yields records and one whose
\* document is missing or has no record.
C1_Witness ==
    /\ EditionsReturned
    /\ Cardinality(BuiltShards) >= 2
    /\ \E k \in 1..Len(parsed) : RecordsOf(k) # <<>> /\ k \in ShardIds(Ceil(k, per_chunk))
    /\ \E k \in 1..Len(parsed) : RecordsOf(k) = <<>>

C3_IdIsPosition ==
    /\ IndexArt \in built =>
          \A r \in IndexRows :
              /\ r.id \in 1..Len(parsed)
              /\ r.slug = parsed[r.id].id
              /\ r.chunk_id = Ceil(r.id, per_chunk)
    /\ \A a \in built : \A r \in Visible(a) :
          r.tbl = "translations" =>
              /\ r.edition_id \in 1..Len(parsed)
              /\ a = ChunkArt(Ceil(r.edition_id, per_chunk))
              /\ \E p \in 1..Len(RecordsOf(r.edition_id)) :
                    LET rec == RecordsOf(r.edition_id)[p]
                    IN  rec.surah = r.surah /\ rec.ayah = r.ayah /\ rec.text = r.text
    /\ EditionsReturned =>
          \A k \in 1..Len(parsed) : \E r \in IndexRows : r.id = k

\* The third edition of three, in windows of two, with its rows in shard 2.
C3_Witness ==
    /\ EditionsReturned
    /\ Len(parsed) = 3 /\ per_chunk = 2
    /\ \E r \in IndexRows : r.id = 3 /\ r.chunk_id = 2 /\ r.slug = parsed[3].id
    /\ 3 \in ShardIds(2)

\* C10 as stated: no row of any artifact is written outside an open
\* explicit transaction.
C10_EveryInsertInTransaction == autocommitted = {}

(***************************************************************************)
(* create_info_db on every info.toon made of at most MaxBlocks of the      *)
(* blocks below.                                                           *)
(***************************************************************************)
InfoBlocks ==
    {<<Chapter1Line, NameLine, VersesLine, Verse1Line, Verse2Line>>,
     <<Chapter2Line, VersesLine, Verse2Line>>,
     <<Chapter1Line, VersesLine, Verse2Line, VerseShortLine, Verse2Line>>,
     <<Chapter2Line>>,
     <<EnglishNameLine>>,
     <<VersesLine, Verse1Line>>,
     <<ChapterXLine>>,
     <<VersesLine, VerseXLine>>}

RECURSIVE Concats(_, _)
Concats(blocks, n) ==
    IF n = 0 THEN {<<>>}
    ELSE LET shorter == Concats(blocks, n - 1)
         IN  shorter \cup {d \o b : d \in shorter, b \in blocks}

InitInfo ==
    /\ Start("create_info_db")
    /\ src \in {[EmptySource EXCEPT !.info = d] : d \in Concats(InfoBlocks, MaxBlocks)}
    /\ vols = <<>>
    /\ per_chunk = 1

NextInfo == Build("info")

SpecInfo == InitInfo /\ [][NextInfo]_vars

InfoRows == fs[Art("info")].rows
SurahRows == {r \in InfoRows : r.tbl = "surahs"}
VerseRows == {r \in InfoRows : r.tbl = "verse_info"}

\* C6: in the info artifact that create_info_db builds, the verse_count of
\* every row of surahs is the number of verse_info rows of that surah,
\* whatever count the document declares.
C6_VerseCountDerived ==
    ~At("create_info_db", "init") =>
        \A s \in SurahRows :
            s.verse_count = Cardinality({v \in VerseRows : v.surah = s.id})

C6_Witness ==
    /\ At("create_info_db", "finalize")
    /\ \E s \in SurahRows : s.verse_count = 2
    /\ \E s \in SurahRows : s.verse_count = 1
    /\ Cardinality(VerseRows) = 3

(***************************************************************************)
(* create_tafsirs_index on every directory of at most MaxVolumes volumes,  *)
(* with or without a master.db beside them.                                *)
(***************************************************************************)
MetaKeys == {"name", "author", "language", "source"}

\* The metadata tables: any set of the keys, each with a text value; the
\* value of name may also be NULL.
MetaTables ==
    UNION {[keys -> {Some(<<"t">>), None}] : keys \in SUBSET MetaKeys} \cap
    UNION {{m \in [keys -> {Some(<<"t">>), None}] :
              \A key \in keys : m[key] = None => key = "name"} :
           keys \in SUBSET MetaKeys}

\* What a volume file can hold: no countable ayahs table, with or without
\* metadata; or ayahs and any metadata, or none.
VolumeKinds ==
    {[ayahs |-> None, meta |-> None],
     [ayahs |-> None, meta |-> Some([key \in MetaKeys |-> Some(<<"t">>)])]}
        \cup {[ayahs |-> Some(2), meta |-> None]}
        \cup {[ayahs |-> Some(2), meta |-> Some(m)] : m \in MetaTables}

Volume(stem, kind) ==
    [stem |-> stem, size |-> 4 + Len(stem), ayahs |-> kind.ayahs,
     meta |-> kind.meta]

\* The directories of n volumes, named in order.
Directories(n) ==
    {[p \in 1..n |-> Volume(<<SlugLetters[p]>>, kinds[p])] :
        kinds \in [1..n -> VolumeKinds]}

InitTafsirs ==
    /\ Start(TfFn)
    /\ src = EmptySource
    /\ \E n \in 0..MaxVolumes : \E d \in Directories(n) :
          vols \in {d, d \o <<Volume(MasterStem, [ayahs |-> Some(2), meta |-> None])>>}
    /\ per_chunk = 1

NextTafsirs == BuildTafsirs

SpecTafsirs == InitTafsirs /\ [][NextTafsirs]_vars

TafsirsReturned == pc = [fn |-> "main", at |-> "done"]

TafsirRows == {r \in fs[TafsirsArt].rows : r.tbl = "tafsirs"}

RowsOf(vol) == {r \in TafsirRows : r.slug = vol.stem}

\* The volume has no metadata table or lacks one of the four keys.
LacksMetadata(vol) == vol.meta = None \/ DOMAIN vol.meta[1] # MetaKeys

HasKey(vol, key) == vol.meta # None /\ key \in DOMAIN vol.meta[1]

\* The row has the default in every field whose key the volume lacks, and
\* the stored value in every other.
FieldsOf(r, vol) ==
    /\ r.name = IF HasKey(vol, "name") THEN vol.meta[1]["name"] ELSE Some(vol.stem)
    /\ r.author = IF HasKey(vol, "author") THEN vol.meta[1]["author"] ELSE None
    /\ r.language = IF HasKey(vol, "language") THEN vol.meta[1]["language"] ELSE None
    /\ r.source = IF HasKey(vol, "source") THEN vol.meta[1]["source"] ELSE None

\* C7 as stated: when create_tafsirs_index has returned, every scanned
\* volume that has no metadata table or lacks a key has one index row, with
\* the stem for a missing name and null for every other missing field.
C7_EveryVolumeLackingMetadataIndexed ==
    TafsirsReturned =>
        \A k \in 1..Len(parsed) :
            LacksMetadata(parsed[k]) =>
                /\ Cardinality(RowsOf(parsed[k])) = 1
                /\ \A r \in RowsOf(parsed[k]) : FieldsOf(r, parsed[k])

\* C7, amended: when create_tafsirs_index has returned, every scanned
\* volume whose ayahs table can be counted has one index row, with that
\* count, with the stem for a missing name, null for every other missing
\* field and the stored value of every key it holds, whether or not it has a
\* metadata table and whatever the volumes before it are; a volume whose
\* ayahs cannot be counted has no row.
C7_CountableVolumeIndexed ==
    TafsirsReturned =>
        \A k \in 1..Len(parsed) :
            IF parsed[k].ayahs = None THEN RowsOf(parsed[k]) = {}
            ELSE /\ Cardinality(RowsOf(parsed[k])) = 1
                 /\ \A r \in RowsOf(parsed[k]) :
                       /\ FieldsOf(r, parsed[k])
                       /\ r.ayah_count = parsed[k].ayahs[1]

\* A volume without a metadata table, indexed under its stem, and after it
\* a volume that holds a name and no author, indexed as well.
C7_Witness ==
    /\ TafsirsReturned
    /\ Len(parsed) = 2
    /\ parsed[1].meta = None /\ parsed[1].ayahs # None
    /\ \E r \in RowsOf(parsed[1]) : r.name = Some(parsed[1].stem) /\ r.author = None
    /\ HasKey(parsed[2], "name") /\ ~HasKey(parsed[2], "author")
    /\ \E r \in RowsOf(parsed[2]) : r.name = Some(<<"t">>) /\ r.author = None

(***************************************************************************)
(* main, twice, on source trees whose documents are each empty, a sample   *)
(* with rows, or one that makes its builder raise.                         *)
(***************************************************************************)
QuranSamples == {<<>>, <<Translation11, Translation12>>}

InfoSamples ==
    {<<>>, <<Chapter1Line, NameLine, VersesLine, Verse1Line>>, <<ChapterXLine>>}

\* No edition; two editions, the first with a document; a repeated slug.
EditionSamples ==
    {[editions |-> <<>>, edfiles |-> <<>>],
     [editions |-> EditionsDoc(<<1, 2>>),
      edfiles |-> [s \in {<<"a">>} |-> <<Translation11, Translation12>>]],
     [editions |-> EditionsDoc(<<1, 1>>), edfiles |-> <<>>]}

TajweedSamples ==
    {<<>>,
     <<TajweedSurahPrefix \o <<" ", "1">>,
       <<" ", " ">> \o TajweedAyahPrefix \o <<" ", "1">>,
       <<" ", " ", "1", ",", "2", ",", "g">>,
       <<" ", " ", "2", ",", "3", ",", "g">>>>,
     <<TajweedSurahPrefix \o <<" ", "x">>>>}

\* The glyph pages, the similarities and the reciters: none, or one each.
OtherSamples ==
    {[glyphs |-> <<>>, mutashabihat |-> <<>>, recitations |-> <<>>],
     [glyphs |-> <<[stem |-> <<"1">>,
                    lines |-> <<<<"1", ",", "1", ",", QUOTE, "g", QUOTE>>>>]>>,
      mutashabihat |-> <<<<QUOTE, "1", QUOTE, ",", QUOTE, "a", QUOTE, ",",
                           QUOTE, "b", QUOTE>>>>,
      recitations |-> <<<<"1", ",", "a", ",", ",", "2">>>>]}

Sources ==
    {[quran |-> q, info |-> n, editions |-> e.editions, edfiles |-> e.edfiles,
      tajweed |-> t, glyphs |-> o.glyphs, mutashabihat |-> o.mutashabihat,
      recitations |-> o.recitations] :
        q \in QuranSamples, n \in InfoSamples, e \in EditionSamples,
        t \in TajweedSamples, o \in OtherSamples}

VolumeSamples ==
    {<<>>,
     <<Volume(<<"a">>, [ayahs |-> Some(2), meta |-> None]),
       Volume(<<"b">>, [ayahs |-> None, meta |-> None])>>}

InitMain ==
    /\ Start(Builders[1])
    /\ src \in Sources
    /\ vols \in VolumeSamples
    /\ per_chunk = 1

NextMain ==
    \/ \E d \in SimpleDomains : Build(d)
    \/ BuildEditions
    \/ BuildTafsirs
    \/ Rerun

SpecMain == InitMain /\ [][NextMain]_vars

\* C8: when the second run of main on the same input has ended, every
\* artifact exists or not, and holds the rows, as when the first run ended.
C8_SecondRunSameRows ==
    (run = 2 /\ MainEnded) =>
        \A a \in Artifacts :
            /\ fs[a].exists = snap[a].exists
            /\ fs[a].rows = snap[a].rows

\* Both runs went through every builder, over a destination that held old
\* artifacts, and left rows in the tajweed artifact and in a shard.
C8_Witness ==
    /\ run = 2 /\ At("main", "done")
    /\ Artifacts \ built = {ChunkArt(c) : c \in 3..MaxChunkFiles}
    /\ Cardinality(fs[Art("tajweed")].rows) = 2
    /\ fs[ChunkArt(1)].rows # {}
    /\ fs[TafsirsArt].rows # {}

(***************************************************************************)
(* main, killed at any step.  snap holds the destination as it was when    *)
(* the run started.                                                        *)
(***************************************************************************)
InitKill ==
    /\ NoHarness
    /\ fs \in Destinations
    /\ snap = fs
    /\ conn = [a \in Artifacts |-> Closed]
    /\ pc = [fn |-> Builders[1], at |-> Entry(Builders[1])]
    /\ parsed = <<>> /\ chunk_id = 0 /\ i = 0 /\ ayahs = <<>>
    /\ run = 1 /\ autocommitted = {} /\ built = {}
    /\ src \in Sources
    /\ vols \in VolumeSamples
    /\ per_chunk = 1

NextKill ==
    \/ \E d \in SimpleDomains : Build(d)
    \/ BuildEditions
    \/ BuildTafsirs
    \/ Kill

SpecKill == InitKill /\ [][NextKill]_vars

\* The builder that writes the artifact.
Owner(a) ==
    IF a \in {IndexArt} \cup {ChunkArt(c) : c \in 1..MaxChunkFiles} THEN EdFn
    ELSE IF a = TafsirsArt THEN TfFn
    ELSE Builder(a[1])

\* The place of a builder in main.
Place(f) == CHOOSE n \in 1..Len(Builders) : Builders[n] = f

\* C11 as stated: when the process has been killed, every artifact that a
\* builder before the running one created is finalized, every artifact the
\* running builder created and has not finalized holds no row, and every
\* artifact the run has not created is as it was when the run started.
C11_KillLeavesArtifactsWhole ==
    Killed =>
        \A a \in Artifacts :
            /\ (a \in built /\ Place(Owner(a)) < Place(pc.fn)) => fs[a].final
            /\ (a \in built /\ Place(Owner(a)) = Place(pc.fn) /\ ~fs[a].final)
                  => fs[a].rows = {}
            /\ a \notin built => fs[a] = snap[a]

\* The same, leaving aside the running builder's artifacts: the builders
\* before it left theirs finalized and the later ones' are untouched.
C11_OtherDomainsWhole ==
    Killed =>
        \A a \in Artifacts :
            /\ (a \in built /\ Place(Owner(a)) < Place(pc.fn)) => fs[a].final
            /\ a \notin built => fs[a] = snap[a]

\* A kill during create_editions_chunked with no transaction open leaves
\* rows in the index although the domain is not complete.
C11_IndexRowsSurviveKill ==
    ~(Killed /\ pc.fn = EdFn /\ ~fs[IndexArt].final /\ fs[IndexArt].rows # {})

(***************************************************************************)
(* A sequence of full runs of main over one destination, the edition list  *)
(* changing between the runs.                                              *)
(***************************************************************************)
\* Source trees that differ in the number of editions only; every edition
\* has a document, and no builder raises.
RunSources ==
    {[quran |-> <<Translation11, Translation12>>,
      info |-> <<Chapter1Line, NameLine, VersesLine, Verse1Line>>,
      editions |-> EditionsDoc([p \in 1..n |-> p]),
      edfiles |-> [s \in {<<SlugLetters[p]>> : p \in 1..n} |->
                      <<Translation11, Translation12>>],
      tajweed |-> <<>>, glyphs |-> <<>>, mutashabihat |-> <<>>,
      recitations |-> <<>>] : n \in 0..MaxEditions}

InitRuns ==
    /\ NoHarness
    /\ fs = DestEmpty
    /\ snap = fs
    /\ conn = [a \in Artifacts |-> Closed]
    /\ pc = [fn |-> Builders[1], at |-> Entry(Builders[1])]
    /\ parsed = <<>> /\ chunk_id = 0 /\ i = 0 /\ ayahs = <<>>
    /\ run = 1 /\ autocommitted = {} /\ built = {}
    /\ src \in RunSources
    /\ vols \in VolumeSamples
    /\ per_chunk \in 1..MaxWindow

NextRuns ==
    \/ \E d \in SimpleDomains : Build(d)
    \/ BuildEditions
    \/ BuildTafsirs
    \/ \E source \in RunSources : RunAgain(source)

SpecRuns == InitRuns /\ [][NextRuns]_vars

Present == {a \in Artifacts : fs[a].exists}

\* C12 as stated: when a run of main has ended, every artifact present was
\* created by that run, and the shards present are chunk_1..chunk_S with
\* S = ceil(N/W) for the N editions of that run.
C12_OnlyLatestRunArtifacts ==
    At("main", "done") =>
        /\ Present \subseteq built
        /\ {c \in 1..MaxChunkFiles : ChunkArt(c) \in Present} =
              1..Ceil(Len(parse_editions_toon(src.editions)), per_chunk)

\* Every artifact other than a shard, and every shard up to S, is created
\* anew by each run.
C12_TargetsRecreated ==
    At("main", "done") =>
        \A a \in Artifacts :
            (a[1] # "chunk"
                \/ a[2] <= Ceil(Len(parse_editions_toon(src.editions)), per_chunk))
                => a \in built

(***************************************************************************)
(* Builders that raise.                                                    *)
(***************************************************************************)
\* C13 as stated: no content of the input documents makes a builder raise
\* and end the run.
C13_NoBuilderRaises == ~At("main", "raised")

(***************************************************************************)
(* The optional fields: create_editions_chunked to create_recitations_db   *)
(* on an edition and a reciter whose optional fields are empty or not.     *)
(***************************************************************************)
OptionalTexts == {<<>>, <<"x">>}

\* slug a, the author, language e, direction l, and, unless the line stops
\* there, source s and the note.
OptionalEditionLines ==
    {<<"a", ",">> \o author \o <<",", "e", ",", "l">> \o rest :
        author \in OptionalTexts,
        rest \in {<<>>} \cup {<<",", "s", ",">> \o note : note \in OptionalTexts}}

\* id 1, name a, the style, 2 verses.
OptionalReciterLines ==
    {<<"1", ",", "a", ",">> \o style \o <<",", "2">> : style \in OptionalTexts}

InitOptional ==
    /\ Start(EdFn)
    /\ \E e \in OptionalEditionLines : \E r \in OptionalReciterLines :
        \E files \in {<<>>, [s \in {<<"a">>} |-> <<Translation11>>]} :
          src = [EmptySource EXCEPT !.editions = <<e>>, !.edfiles = files,
                                    !.recitations = <<r>>]
    /\ vols = <<>>
    /\ per_chunk \in 1..MaxWindow

NextOptional ==
    \/ BuildEditions
    \/ \E d \in {"tajweed", "glyphs", "mutashabihat", "recitations"} : Build(d)

SpecOptional == InitOptional /\ [][NextOptional]_vars

EditionOf(r) == parse_editions_toon(src.editions)[r.id]

\* The style field of the reciter line of the source tree.
InputStyle == SubSeq(src.recitations[1], 5, Len(src.recitations[1]) - 2)

\* An optional field read as text and the column it is stored in: null for
\* the empty string, the text unchanged otherwise.
StoredAsOptional(text, column) ==
    column = IF text = <<>> THEN None ELSE Some(text)

\* C14 as stated: in the rows the run has stored, the author and the note of
\* an edition and the style of a reciter are null when the field is empty in
\* the input, and the input text otherwise.
C14_EmptyOptionalIsNull ==
    /\ IndexArt \in built =>
          \A r \in {x \in fs[IndexArt].rows : x.tbl = "editions"} :
              /\ StoredAsOptional(EditionOf(r).author, r.author)
              /\ StoredAsOptional(EditionOf(r).note, r.note)
    /\ Art("recitations") \in built =>
          \A r \in fs[Art("recitations")].rows :
              StoredAsOptional(InputStyle, r.style)

\* The style of a reciter alone: null when empty, unchanged otherwise.
C14_EmptyStyleIsNull ==
    Art("recitations") \in built =>
        \A r \in fs[Art("recitations")].rows :
            StoredAsOptional(InputStyle, r.style)

(***************************************************************************)
(* The rows of the tafsirs index against the files of the directory.       *)
(***************************************************************************)
\* The '*.db' files of the directory other than index.db and master.db.
VolumeFiles ==
    {Listing(vols)[k] : k \in {p \in 1..Len(Listing(vols)) :
        Listing(vols)[p].stem \notin {IndexStem, MasterStem}}}

\* The row is the row of the file: its stem, its count of ayahs, its size.
RowOfFile(r, f) ==
    /\ r.slug = f.stem
    /\ f.ayahs # None /\ r.ayah_count = f.ayahs[1]
    /\ r.file_size_bytes = f.size

\* C15 as stated: when create_tafsirs_index has returned, the index holds
\* exactly one row for each file of the directory other than index.db and
\* master.db, with its stem, ayah count and size, and no other row.
C15_OneRowPerFile ==
    TafsirsReturned =>
        /\ \A f \in VolumeFiles :
              Cardinality({r \in TafsirRows : RowOfFile(r, f)}) = 1
        /\ \A r \in TafsirRows : \E f \in VolumeFiles : RowOfFile(r, f)
        /\ \A r \in TafsirRows : r.slug \notin {IndexStem, MasterStem}

\* C15, amended: when create_tafsirs_index has returned, the index holds
\* exactly one row, with the stem, the ayah count and the size, for each
\* file other than index.db and master.db whose ayahs table can be counted,
\* no row for a file whose ayahs cannot be counted, and no other row; the
\* ids number the rows in the order of the scan.
C15_OneRowPerCountableFile ==
    TafsirsReturned =>
        /\ \A f \in VolumeFiles :
              Cardinality({r \in TafsirRows : r.slug = f.stem}) =
                  IF f.ayahs = None THEN 0 ELSE 1
        /\ \A r \in TafsirRows : \E f \in VolumeFiles : RowOfFile(r, f)
        /\ \A r \in TafsirRows : r.slug \notin {IndexStem, MasterStem}
        /\ {r.id : r \in TafsirRows} = 1..Cardinality(TafsirRows)
        /\ \A r \in TafsirRows : \A e \in TafsirRows :
              r.id < e.id =>
                  \E k \in 1..Len(vols) : \E m \in 1..Len(vols) :
                      k < m /\ vols[k].stem = r.slug /\ vols[m].stem = e.slug

\* A directory with master.db, a volume that can be counted and one that
\* cannot: one row.
C15_Witness ==
    /\ TafsirsReturned
    /\ \E k \in 1..Len(vols) : vols[k].stem = MasterStem
    /\ \E f \in VolumeFiles : f.ayahs = None
    /\ \E f \in VolumeFiles : f.ayahs # None
    /\ Cardinality(TafsirRows) = 1

(***************************************************************************)
(* parse_editions_toon on every one-line editions.toon of at most MaxLine  *)
(* characters out of a letter, the comma, the double quote and the blank.  *)
(***************************************************************************)
InitEditionsParse ==
    /\ fn = "none"
    /\ \E t \in Texts(MaxLine) : arg = <<t>>
    /\ given = <<>>
    /\ ret = <<>>
    /\ NoPipeline

NextEditionsParse == CallEditions

SpecEditionsParse == InitEditionsParse /\ [][NextEditionsParse]_vars

\* The line as the loop sees it.
SeenLine == Strip(arg[1])

\* The character at p lies inside a quoted span: an odd number of double
\* quotes precede it.
Quoted(p) == Cardinality({q \in 1..(p - 1) : SeenLine[q] = QUOTE}) % 2 = 1

UnquotedCommas == {p \in 1..Len(SeenLine) : SeenLine[p] = "," /\ ~Quoted(p)}

\* The position of the k-th unquoted comma; 0 before the first and one past
\* the end of the line after the last.
Comma(k) ==
    IF k = 0 THEN 0
    ELSE IF k > Cardinality(UnquotedCommas) THEN Len(SeenLine) + 1
    ELSE CHOOSE p \in UnquotedCommas :
            Cardinality({q \in UnquotedCommas : q < p}) = k - 1

\* The k-th field: what lies between two unquoted commas, without the quote
\* characters and without the blanks around it.
Between(k) ==
    Strip(SelectSeq(SubSeq(SeenLine, Comma(k - 1) + 1, Comma(k) - 1),
                    LAMBDA c : c # QUOTE))

\* C16: parse_editions_toon splits the line at its unquoted commas only:
\* the fields are as many as the unquoted commas plus one, each is what lies
\* between two of them without its quote characters, a quoted comma stays
\* in its field; with fewer than 4 fields there is no edition, else there is
\* one, made of the first six fields.
C16_SplitAtUnquotedCommas ==
    fn = "parse_editions_toon" =>
        LET n == Cardinality(UnquotedCommas) + 1
            parts == SplitFields(SeenLine, <<>>, <<>>, FALSE)
        IN  /\ Len(parts) = n
            /\ \A k \in 1..n : parts[k] = Between(k)
            /\ \A k \in 1..n : \A p \in 1..Len(parts[k]) : parts[k][p] # QUOTE
            /\ IF n < 4 THEN ret.records = <<>>
               ELSE /\ Len(ret.records) = 1
                    /\ ret.records[1].id = Between(1)
                    /\ ret.records[1].author = Between(2)
                    /\ ret.records[1].language = Between(3)
                    /\ ret.records[1].direction = Between(4)
                    /\ ret.records[1].source = IF n >= 5 THEN Between(5) ELSE <<>>
                    /\ ret.records[1].note = IF n >= 6 THEN Between(6) ELSE <<>>

\* A line of four fields, one of them holding a quoted comma.
C16_Witness ==
    /\ fn = "parse_editions_toon"
    /\ Len(ret.records) = 1
    /\ Cardinality(UnquotedCommas) = 3
    /\ \E p \in 1..Len(SeenLine) : SeenLine[p] = "," /\ Quoted(p)
    /\ \E p \in 1..Len(ret.records[1].id) : ret.records[1].id[p] = ","

=============================================================================
